---------------------------- MODULE Spec2Model ----------------------------
(***************************************************************************)
(* A model of modules/syslog_ng.py: the tree-to-text compiler              *)
(* (_build_config and its helpers), config(), write_config() and           *)
(* _run_command_in_extended_path().                                        *)
(*                                                                         *)
(* Text is a sequence of one-character strings, so that concatenation,     *)
(* quoting and line structure are computed and never assumed.             *)
(* A document node is a record [t, v]: t is the Python type, v its value.  *)
(* A dict is the sequence of its (key, value) pairs in keys() order.       *)
(***************************************************************************)
EXTENDS Integers, Sequences, FiniteSets, TLC

\* ------------------------------------------------------------------ bounds
MaxStrLen == 2
MaxListLen == 2
MaxAppends == 2
MaxPathLen == 3
MaxNewlines == 2

\* ------------------------------------------------------- program constants
IndentWidth == 3
DefaultNewlines == 2

\* ------------------------------------------------------------------- text
T_source == <<"s", "o", "u", "r", "c", "e">>
T_destination == <<"d", "e", "s", "t", "i", "n", "a", "t", "i", "o", "n">>
T_log == <<"l", "o", "g">>
T_parser == <<"p", "a", "r", "s", "e", "r">>
T_rewrite == <<"r", "e", "w", "r", "i", "t", "e">>
T_template == <<"t", "e", "m", "p", "l", "a", "t", "e">>
T_channel == <<"c", "h", "a", "n", "n", "e", "l">>
T_junction == <<"j", "u", "n", "c", "t", "i", "o", "n">>
T_filter == <<"f", "i", "l", "t", "e", "r">>
T_options == <<"o", "p", "t", "i", "o", "n", "s">>
T_file == <<"f", "i", "l", "e">>
T_id == <<"i", "d">>
T_s_local == <<"s", "_", "l", "o", "c", "a", "l">>
T_s1 == <<"s", "1">>
T_messages == <<"/", "v", "a", "r", "/", "l", "o", "g", "/", "m", "e", "s", "s", "a", "g", "e", "s">>
T_flag == <<"f", "l", "a", "g">>
T_True == <<"T", "r", "u", "e">>
T_False == <<"F", "a", "l", "s", "e">>
T_yes == <<"y", "e", "s">>
T_no == <<"n", "o">>
NL == <<"\n">>
SP == <<" ">>
QUOTE == <<"\"">>

_STATEMENT_NAMES ==
    {T_source, T_destination, T_log, T_parser, T_rewrite,
     T_template, T_channel, T_junction, T_filter, T_options}

UnnamedStatementNames == {T_log, T_channel, T_junction, T_options}

need_quotation_chars == {"$", "@", ":", "/", "."}

Digits == {"0", "1", "2", "3", "4", "5", "6", "7", "8", "9"}

DigitChar(d) ==
    CASE d = 0 -> "0" [] d = 1 -> "1" [] d = 2 -> "2" [] d = 3 -> "3"
      [] d = 4 -> "4" [] d = 5 -> "5" [] d = 6 -> "6" [] d = 7 -> "7"
      [] d = 8 -> "8" [] d = 9 -> "9"

\* ------------------------------------------------------------------ nodes
StrNode(s) == [t |-> "str", v |-> s]
IntNode(n) == [t |-> "int", v |-> n]
FloatNode(tenths) == [t |-> "float", v |-> tenths]
BoolNode(b) == [t |-> "bool", v |-> b]
ListNode(xs) == [t |-> "list", v |-> xs]
DictNode(pairs) == [t |-> "dict", v |-> pairs]
NoneNode == [t |-> "none", v |-> 0]
Map1(k, x) == DictNode(<<<<StrNode(k), x>>>>)

\* isinstance(x, str) etc.; in Python 2 bool is a subclass of int.
IsStr(x) == x.t = "str"
IsInt(x) == x.t \in {"int", "bool"}
IsFloat(x) == x.t = "float"
IsBool(x) == x.t = "bool"
IsList(x) == x.t = "list"
IsDict(x) == x.t = "dict"

\* ------------------------------------------------------ text conversions
RECURSIVE NatToText(_)
NatToText(n) ==
    IF n < 10 THEN <<DigitChar(n)>>
    ELSE NatToText(n \div 10) \o <<DigitChar(n % 10)>>

\* str(int): base 10, a leading minus sign for negatives.
IntToText(n) == IF n < 0 THEN <<"-">> \o NatToText(0 - n) ELSE NatToText(n)

\* str(float) for the floats of the model, which are whole numbers of tenths.
FloatToText(tenths) ==
    IF tenths < 0
    THEN <<"-">> \o NatToText((0 - tenths) \div 10) \o <<".">>
                 \o NatToText((0 - tenths) % 10)
    ELSE NatToText(tenths \div 10) \o <<".">> \o NatToText(tenths % 10)

\* '{0}'.format(x) and str(x) of a scalar.
Format(x) ==
    CASE x.t = "str" -> x.v
      [] x.t = "int" -> IntToText(x.v)
      [] x.t = "float" -> FloatToText(x.v)
      [] x.t = "bool" -> IF x.v THEN T_True ELSE T_False

RECURSIVE Spaces(_)
Spaces(n) == IF n <= 0 THEN <<>> ELSE SP \o Spaces(n - 1)

RECURSIVE Join(_, _)
Join(sep, parts) ==
    IF Len(parts) = 0 THEN <<>>
    ELSE IF Len(parts) = 1 THEN parts[1]
    ELSE parts[1] \o sep \o Join(sep, Tail(parts))

\* float(s) of a str: the transition function of Python's float grammar
\* [sign] (digits ['.' [digits]] | '.' digits) [(e|E) [sign] digits].
\* States: 0 start, 1 sign, 2 integer digits, 3 lone dot, 4 fraction,
\* 5 exponent mark, 6 exponent sign, 7 exponent digits, 8 reject.
FloatStep(st, c) ==
    CASE st = 0 -> IF c \in {"+", "-"} THEN 1
                   ELSE IF c \in Digits THEN 2 ELSE IF c = "." THEN 3 ELSE 8
      [] st = 1 -> IF c \in Digits THEN 2 ELSE IF c = "." THEN 3 ELSE 8
      [] st = 2 -> IF c \in Digits THEN 2
                   ELSE IF c = "." THEN 4 ELSE IF c \in {"e", "E"} THEN 5 ELSE 8
      [] st = 3 -> IF c \in Digits THEN 4 ELSE 8
      [] st = 4 -> IF c \in Digits THEN 4 ELSE IF c \in {"e", "E"} THEN 5 ELSE 8
      [] st = 5 -> IF c \in {"+", "-"} THEN 6 ELSE IF c \in Digits THEN 7 ELSE 8
      [] st = 6 -> IF c \in Digits THEN 7 ELSE 8
      [] st = 7 -> IF c \in Digits THEN 7 ELSE 8
      [] OTHER -> 8

RECURSIVE FloatRun(_, _, _)
FloatRun(s, i, st) ==
    IF i > Len(s) THEN st ELSE FloatRun(s, i + 1, FloatStep(st, s[i]))

\* TRUE when float(s) returns, FALSE when it raises ValueError. The strings
\* of the model hold no white space and not the letters of inf and nan, the
\* other texts float() accepts.
FloatParses(s) == FloatRun(s, 1, 0) \in {2, 4, 7}

\* --------------------------------------------------- classification tests
_is_statement_unnamed(statement) ==
    IsStr(statement) /\ statement.v \in UnnamedStatementNames

_is_all_element_has_type(container, type_) ==
    \A i \in 1..Len(container) : container[i].t = type_

\* _is_statement without its len(content) > 1 test.
_is_statement_any_length(name, content) ==
    /\ IsStr(name) /\ name.v \in _STATEMENT_NAMES
    /\ IsList(content)
    /\ \/ _is_all_element_has_type(content.v, "dict")
       \/ /\ Len(content.v) >= 1
          /\ _is_all_element_has_type(Tail(content.v), "dict")
          /\ (IsStr(content.v[1]) \/ IsDict(content.v[1]))

_is_statement(name, content) ==
    /\ IsStr(name) /\ name.v \in _STATEMENT_NAMES
    /\ IsList(content)
    /\ \/ _is_all_element_has_type(content.v, "dict")
       \/ /\ Len(content.v) > 1
          /\ _is_all_element_has_type(Tail(content.v), "dict")
          /\ (IsStr(content.v[1]) \/ IsDict(content.v[1]))

_is_simple_type(value) ==
    IsStr(value) \/ IsInt(value) \/ IsFloat(value) \/ IsBool(value)

Top(state_stack) == state_stack[Len(state_stack)]
\* state_stack.pop() that removes nothing.
PopNothing(state_stack) == state_stack

Pop(state_stack) == SubSeq(state_stack, 1, Len(state_stack) - 1)

_is_reference(parent, this, state_stack) ==
    IsStr(parent) /\ _is_simple_type(this) /\ Top(state_stack) = 0

_is_options(parent, this, state_stack) ==
    IsStr(parent) /\ IsList(this) /\ Top(state_stack) = 0

_are_parameters(this, state_stack) == IsList(this) /\ Top(state_stack) = 1

_is_simple_parameter(this, state_stack) ==
    Top(state_stack) = 2 /\ _is_simple_type(this)

_is_complex_parameter(this, state_stack) ==
    Top(state_stack) = 2 /\ IsDict(this)

_is_list_parameter(this, state_stack) == Top(state_stack) = 3 /\ IsList(this)

_is_string_parameter(this, state_stack) == Top(state_stack) = 3 /\ IsStr(this)

_is_int_parameter(this, state_stack) == Top(state_stack) = 3 /\ IsInt(this)

_is_boolean_parameter(this, state_stack) ==
    Top(state_stack) = 3 /\ IsBool(this)

\* The if/elif cascade of _build_config: the first test that holds.
Branch(parent, this, state_stack) ==
    IF _is_statement(parent, this) THEN "statement"
    ELSE IF _is_reference(parent, this, state_stack) THEN "reference"
    ELSE IF _is_options(parent, this, state_stack) THEN "options"
    ELSE IF _are_parameters(this, state_stack) THEN "parameters"
    ELSE IF _is_simple_parameter(this, state_stack) THEN "simple"
    ELSE IF _is_complex_parameter(this, state_stack) THEN "complex"
    ELSE IF _is_list_parameter(this, state_stack) THEN "list"
    ELSE IF _is_string_parameter(this, state_stack) THEN "string"
    ELSE IF _is_int_parameter(this, state_stack) THEN "int"
    ELSE IF _is_boolean_parameter(this, state_stack) THEN "boolean"
    ELSE "unhandled"

\* ---------------------------------------------------------------- emitter
\* What a call returns: err is "none" or the name of the exception that left
\* the call, text the returned string, stack the nesting stack as the call
\* left it (the list is shared with the caller), calls the _build_config calls
\* made below it, in the order they were entered. by tells, for each character
\* of text, which call wrote it: the length of the nesting stack at entry to
\* the _build_config call whose code put the character into its buffer.
Ok(text, by, stack, calls) ==
    [err |-> "none", text |-> text, by |-> by, stack |-> stack,
     calls |-> calls]

Raise(err, stack, calls) ==
    [err |-> err, text |-> <<>>, by |-> <<>>, stack |-> stack, calls |-> calls]

\* The marks of a text written by the call entered with state_stack.
Own(text, state_stack) == [i \in 1..Len(text) |-> Len(state_stack)]

\* buffer.write(text) on a buffer kept with its marks.
Write(buf, text, by) == [text |-> buf.text \o text, by |-> buf.by \o by]

\* The indent counted from the stack's length, not from length - 1.
IndentFromLength(state_stack) == Spaces(IndentWidth * Len(state_stack))

\* deepness * '   '
Indent(state_stack) == Spaces(IndentWidth * (Len(state_stack) - 1))

\* _string_needs_quotation with the dot left out of need_quotation_chars.
_string_needs_quotation_no_dot(string) ==
    \E i \in 1..Len(string) : string[i] \in need_quotation_chars \ {"."}

_string_needs_quotation(string) ==
    \E i \in 1..Len(string) : string[i] \in need_quotation_chars

_build_string_parameter(this) ==
    IF _string_needs_quotation(this.v) THEN QUOTE \o this.v \o QUOTE ELSE this.v

\* float(this) succeeds for every number and bool, and then indent + this
\* concatenates a str and a non-str, which raises TypeError.
_build_simple_parameter(this, indent) ==
    IF IsStr(this)
    THEN IF FloatParses(this.v)
         THEN [err |-> "none", text |-> indent \o this.v]
         ELSE IF _string_needs_quotation(this.v)
              THEN [err |-> "none", text |-> indent \o QUOTE \o this.v \o QUOTE]
              ELSE [err |-> "none", text |-> indent \o this.v]
    ELSE [err |-> "TypeError", text |-> <<>>]

\* The opening line without the len(state_stack) > 1 test.
StatementHeaderAnyDepth(id, parent, indent, state_stack) ==
    IF _is_statement_unnamed(parent)
    THEN indent \o Format(parent) \o SP \o <<"{">> \o NL
    ELSE indent \o Format(parent) \o SP \o id \o SP \o <<"{">> \o NL

\* The opening line written by _build_statement.
StatementHeader(id, parent, indent, state_stack) ==
    IF _is_statement_unnamed(parent) \/ Len(state_stack) > 1
    THEN indent \o Format(parent) \o SP \o <<"{">> \o NL
    ELSE indent \o Format(parent) \o SP \o id \o SP \o <<"{">> \o NL

StatementFooter(indent) == indent \o <<"}", ";">>

ReferenceText(indent, parent, this) ==
    indent \o Format(parent) \o <<"(">> \o Format(this) \o <<")", ";">>

\* ', '.join(this): TypeError unless every element is a str.
ListParameter(this) ==
    IF \A i \in 1..Len(this.v) : IsStr(this.v[i])
    THEN [err |-> "none",
          text |-> Join(<<",", " ">>, [i \in 1..Len(this.v) |-> this.v[i].v])]
    ELSE [err |-> "TypeError", text |-> <<>>]

\* 'no' if this else 'yes'
BooleanParameter(this) == IF this.v THEN T_no ELSE T_yes

\* The closing line of an options block without its indent.
OptionsCloserBare(indent) == NL \o <<")", ";">> \o NL

\* What _build_options writes after the block's content.
OptionsCloser(indent) == NL \o indent \o <<")", ";">> \o NL

\* A value worked out once and then used under a name, as the result a call
\* returned is.
With(value, Body(_)) == CHOOSE x \in {Body(v) : v \in {value}} : TRUE

RECURSIVE _build_config(_, _, _, _)
RECURSIVE StatementLoop(_, _, _, _, _, _)
RECURSIVE ParameterLoop(_, _, _, _, _, _, _)

\* The for loop of _build_statement from element i on; buf is the buffer so far.
StatementLoop(id, elems, i, state_stack, buf, calls) ==
    IF i > Len(elems) THEN Ok(buf.text, buf.by, state_stack, calls)
    ELSE IF ~IsDict(elems[i])
    THEN StatementLoop(id, elems, i + 1, state_stack, buf, calls)
    ELSE IF Len(elems[i].v) = 0 THEN Raise("IndexError", state_stack, calls)
    ELSE LET key == elems[i].v[1][1]
             value == elems[i].v[1][2]
         IN  With(_build_config(id, key, value, Append(state_stack, 0)),
                  LAMBDA r :
                    IF r.err # "none"
                    THEN Raise(r.err, r.stack, calls \o r.calls)
                    ELSE With(Write(buf, r.text, r.by),
                              LAMBDA written :
                                StatementLoop(id, elems, i + 1, Pop(r.stack),
                                              written, calls \o r.calls)))

_build_statement(id, parent, this, indent, state_stack) ==
    LET header == StatementHeader(id, parent, indent, state_stack)
        footer == StatementFooter(indent)
    IN  With(StatementLoop(id, this.v, 1, state_stack,
                           [text |-> header, by |-> Own(header, state_stack)],
                           <<>>),
             LAMBDA r :
               IF r.err # "none" THEN r
               ELSE Ok(r.text \o footer, r.by \o Own(footer, state_stack),
                       r.stack, r.calls))

_build_complex_parameter(id, this, indent, state_stack) ==
    LET pushed == Append(state_stack, 3)
    IN  IF Len(this.v) = 0 THEN Raise("IndexError", pushed, <<>>)
        ELSE LET key == this.v[1][1]
                 value == this.v[1][2]
                 begin == indent \o Format(key) \o <<"(">>
                 end == <<")">>
             IN  With(_build_config(id, key, value, pushed),
                      LAMBDA r :
                        IF r.err # "none" THEN r
                        ELSE Ok(begin \o r.text \o end,
                                Own(begin, state_stack) \o r.by
                                  \o Own(end, state_stack),
                                Pop(r.stack), r.calls))

\* The list comprehension of _build_parameters from element i on: params is
\* the list so far, the texts and their marks side by side.
ParameterLoop(id, parent, elems, i, state_stack, params, calls) ==
    IF i > Len(elems) THEN Ok(params.text, params.by, state_stack, calls)
    ELSE With(_build_config(id, parent, elems[i], state_stack),
              LAMBDA r :
                IF r.err # "none"
                THEN Raise(r.err, r.stack, calls \o r.calls)
                ELSE With([text |-> Append(params.text, r.text),
                           by |-> Append(params.by, r.by)],
                          LAMBDA appended :
                            ParameterLoop(id, parent, elems, i + 1, r.stack,
                                          appended, calls \o r.calls)))

_build_parameters(id, parent, this, state_stack) ==
    LET sep == <<",">> \o NL
    IN  With(ParameterLoop(id, parent, this.v, 1, Append(state_stack, 2),
                           [text |-> <<>>, by |-> <<>>], <<>>),
             LAMBDA r :
               IF r.err # "none" THEN r
               ELSE Ok(Join(sep, r.text), Join(Own(sep, state_stack), r.by),
                       Pop(r.stack), r.calls))

_build_options(id, parent, this, indent, state_stack) ==
    LET opener == indent \o Format(parent) \o <<"(">> \o NL
        closer == OptionsCloser(indent)
    IN  With(_build_config(id, parent, this, Append(state_stack, 1)),
             LAMBDA r :
               IF r.err # "none" THEN r
               ELSE Ok(opener \o r.text \o closer,
                       Own(opener, state_stack) \o r.by
                         \o Own(closer, state_stack),
                       Pop(r.stack), r.calls))

\* A text returned by a call that made no call below it.
Written(text, state_stack) ==
    Ok(text, Own(text, state_stack), state_stack, <<>>)

\* The body of _build_config for the branch taken.
Dispatch(salt_id, parent, this, state_stack, indent, branch) ==
    CASE branch = "statement" ->
           _build_statement(salt_id, parent, this, indent, state_stack)
      [] branch = "reference" ->
           Written(ReferenceText(indent, parent, this), state_stack)
      [] branch = "options" ->
           _build_options(salt_id, parent, this, indent, state_stack)
      [] branch = "parameters" ->
           _build_parameters(salt_id, parent, this, state_stack)
      [] branch = "simple" ->
           LET p == _build_simple_parameter(this, indent)
           IN  [err |-> p.err, text |-> p.text,
                by |-> Own(p.text, state_stack), stack |-> state_stack,
                calls |-> <<>>]
      [] branch = "complex" ->
           _build_complex_parameter(salt_id, this, indent, state_stack)
      [] branch = "list" ->
           LET p == ListParameter(this)
           IN  [err |-> p.err, text |-> p.text,
                by |-> Own(p.text, state_stack), stack |-> state_stack,
                calls |-> <<>>]
      [] branch = "string" ->
           Written(_build_string_parameter(this), state_stack)
      [] branch = "int" -> Written(Format(this), state_stack)
      [] branch = "boolean" -> Written(BooleanParameter(this), state_stack)
      [] OTHER -> Raise("SyslogNgError", state_stack, <<>>)

_build_config(salt_id, parent, this, state_stack) ==
    LET branch == Branch(parent, this, state_stack)
    IN  With(Dispatch(salt_id, parent, this, state_stack,
                      Indent(state_stack), branch),
             LAMBDA r :
               LET call == [parent |-> parent, this |-> this,
                            stack |-> state_stack, branch |-> branch,
                            err |-> r.err, text |-> r.text,
                            stackOut |-> r.stack]
               IN  [err |-> r.err, text |-> r.text, by |-> r.by,
                    stack |-> r.stack, calls |-> <<call>> \o r.calls])

\* ------------------------------------------------------------ module state
VARIABLES
    file,     \* the content of __SYSLOG_NG_CONFIG_FILE
    path,     \* os.environ["PATH"], as its entries between os.pathsep
    writes,   \* how many _write_config calls have succeeded
    input,    \* the arguments of the one call of a single-call run
    last      \* the last call made: its arguments, what it found, its outcome

vars == <<file, path, writes, input, last>>

linesep == NL

RECURSIVE Repeat(_, _)
Repeat(text, n) == IF n <= 0 THEN <<>> ELSE text \o Repeat(text, n - 1)

\* The file opened with 'w': the writes start from an empty file.
OpenTruncating(content) == <<>>

\* open(__SYSLOG_NG_CONFIG_FILE, 'a'): the content the writes start from.
OpenForWrite(content) == content

\* text = config, or the one value of a single-key dict
WriteText(config) ==
    IF IsDict(config) /\ Len(config.v) = 1 THEN config.v[1][2] ELSE config

\* _write_config: io is what the file system does ("ok" or "open_fails");
\* f.write raises TypeError for a text that is not a str. Every exception is
\* caught and turns into False.
_write_config(content, config, newlines, io) ==
    LET text == WriteText(config)
    IN  IF io # "ok" THEN [succ |-> FALSE, file |-> content]
        ELSE IF ~IsStr(text) THEN [succ |-> FALSE, file |-> content]
        ELSE [succ |-> TRUE,
              file |-> OpenForWrite(content) \o text.v \o Repeat(linesep, newlines)]

\* config(name, config, write) up to the call of _write_config.
Compile(name, config) ==
    IF ~IsDict(config) THEN Raise("SaltInvocationError", <<>>, <<>>)
    ELSE IF Len(config.v) = 0 THEN Raise("IndexError", <<>>, <<>>)
    ELSE _build_config(name, config.v[1][1], config.v[1][2], <<0>>)

\* config() writing whatever text there is, whether _build_config raised or not.
ConfigWriteRegardless(content, r, write, io) ==
    IF write
    THEN _write_config(content, StrNode(r.text), DefaultNewlines, io)
    ELSE [succ |-> FALSE, file |-> content]

\* The file after config(): _write_config runs only once _build_config returned.
ConfigWrite(content, r, write, io) ==
    IF r.err = "none" /\ write
    THEN _write_config(content, StrNode(r.text), DefaultNewlines, io)
    ELSE [succ |-> FALSE, file |-> content]

Config(name, config, write, io) ==
    LET r == Compile(name, config)
        w == ConfigWrite(file, r, write, io)
    IN  /\ (w.file # file) => writes < MaxAppends
        /\ file' = w.file
        /\ writes' = IF w.file # file THEN writes + 1 ELSE writes
        /\ last' = [op |-> "config",
                    args |-> [name |-> name, config |-> config,
                              write |-> write, io |-> io],
                    err |-> r.err, succ |-> (r.err = "none" /\ w.succ),
                    text |-> r.text, by |-> r.by, calls |-> r.calls,
                    fileBefore |-> file, pathBefore |-> path]
        /\ UNCHANGED <<path, input>>

WriteConfig(name, config, newlines, io) ==
    LET w == _write_config(file, config, newlines, io)
    IN  /\ w.succ => writes < MaxAppends
        /\ file' = w.file
        /\ writes' = IF w.succ THEN writes + 1 ELSE writes
        /\ last' = [op |-> "write_config",
                    args |-> [name |-> name, config |-> config,
                              newlines |-> newlines, io |-> io],
                    err |-> "none", succ |-> w.succ,
                    text |-> <<>>, by |-> <<>>, calls |-> <<>>,
                    fileBefore |-> file, pathBefore |-> path]
        /\ UNCHANGED <<path, input>>

\* --------------------------------------------------------- search path
\* The directories of the machine that hold each command.
Installed(directory) ==
    IF directory = "/opt/sbin" THEN {"syslog-ng"} ELSE {}

\* salt.utils.which(command) under the search path p
Which(command, p) == \E i \in 1..Len(p) : command \in Installed(p[i])

\* The PATH after _add_to_path_envvar(directory); it returns the PATH before.
_add_to_path_envvar(p, directory) ==
    IF directory # "" THEN Append(p, directory) ELSE p

\* The PATH after _restore_path_envvar(original); "" is the one-entry path <<"">>.
_restore_path_envvar(p, original) ==
    IF original # <<"">> THEN original ELSE p

\* outcome is what __salt__['cmd.run_all'] does: "returns" or "raises".
_run_command_in_extended_path(p, syslog_ng_sbin_dir, command, outcome) ==
    LET orig_path == p
        extended == _add_to_path_envvar(p, syslog_ng_sbin_dir)
    IN  IF ~Which(command, extended)
        THEN [err |-> "CommandExecutionError",
              path |-> _restore_path_envvar(extended, orig_path)]
        ELSE IF outcome = "raises"
        THEN [err |-> "CommandExecutionError", path |-> extended]
        ELSE [err |-> "none", path |-> _restore_path_envvar(extended, orig_path)]

RunCommand(syslog_ng_sbin_dir, command, outcome) ==
    LET r == _run_command_in_extended_path(path, syslog_ng_sbin_dir, command,
                                           outcome)
    IN  /\ Len(r.path) <= MaxPathLen
        /\ path' = r.path
        /\ last' = [op |-> "run",
                    args |-> [dir |-> syslog_ng_sbin_dir, command |-> command,
                              outcome |-> outcome],
                    err |-> r.err, succ |-> (r.err = "none"),
                    text |-> <<>>, by |-> <<>>, calls |-> <<>>,
                    fileBefore |-> file, pathBefore |-> path]
        /\ UNCHANGED <<file, writes, input>>

\* ----------------------------------------------------------------- inputs
Alphabet == {"a", "1", "e", "-", ".", "/", "$", "@", ":"}

Strings == UNION {[1..k -> Alphabet] : k \in 0..MaxStrLen}

Scalars ==
    {StrNode(<<"a">>), StrNode(<<"/", "x">>), IntNode(7), FloatNode(15),
     BoolNode(TRUE), BoolNode(FALSE)}

ListElems ==
    {StrNode(<<"a">>), IntNode(7), Map1(T_file, StrNode(<<"b">>)),
     Map1(T_source, ListNode(<<>>))}

Lists == {ListNode(l) : l \in UNION {[1..k -> ListElems] : k \in 0..MaxListLen}}

TwoKeys ==
    DictNode(<<<<StrNode(T_log), ListNode(<<>>)>>,
               <<StrNode(T_source), ListNode(<<>>)>>>>)

Dicts ==
    {Map1(T_flag, x) : x \in Scalars \cup {NoneNode,
                              ListNode(<<StrNode(<<"a">>), StrNode(<<"b">>)>>),
                              ListNode(<<IntNode(7)>>)}}
      \cup {DictNode(<<>>), TwoKeys}

ShapeNodes == Scalars \cup {NoneNode} \cup Lists \cup Dicts

Parents == {StrNode(k) : k \in _STATEMENT_NAMES \cup {T_file}} \cup {IntNode(5)}

\* The shapes the nesting stack takes below config()'s [0].
Stacks ==
    {<<0>>, <<0, 0>>, <<0, 1>>, <<0, 0, 1>>, <<0, 1, 2>>, <<0, 0, 1, 2>>,
     <<0, 1, 2, 3>>, <<0, 0, 1, 2, 3>>}

Example ==
    Map1(T_source, ListNode(<<Map1(T_id, StrNode(T_s_local)),
                              Map1(T_file, ListNode(<<StrNode(T_messages)>>))>>))

\* A statement whose first option is emitted and whose second holds a float
\* where only a leaf is accepted.
\* A statement whose only option has no parameters.
EmptyOptions == Map1(T_source, ListNode(<<Map1(T_file, ListNode(<<>>))>>))

LateFloat ==
    Map1(T_source,
         ListNode(<<Map1(T_file, ListNode(<<StrNode(<<"a">>)>>)),
                    Map1(T_file, ListNode(<<Map1(T_flag, FloatNode(15))>>))>>))

Roots ==
    {Map1(k, body) : k \in _STATEMENT_NAMES \cup {T_file},
                     body \in Lists \cup {StrNode(<<"a">>)}}
      \cup {Map1(T_source, ListNode(<<Map1(T_file, ListNode(<<p>>))>>)) :
               p \in Scalars \cup Dicts}
      \cup {Example, EmptyOptions, LateFloat, TwoKeys, DictNode(<<>>),
            ListNode(<<>>), StrNode(<<"a">>)}

NoInput ==
    [kind |-> "none", id |-> <<>>, parent |-> NoneNode, this |-> NoneNode,
     stack |-> <<>>, write |-> FALSE]

BuildInputs ==
    {[kind |-> "build", id |-> T_s1, parent |-> p, this |-> n, stack |-> st,
      write |-> FALSE] : p \in Parents, n \in ShapeNodes, st \in Stacks}
      \cup {[kind |-> "build", id |-> T_s1, parent |-> StrNode(T_file),
             this |-> StrNode(s), stack |-> st, write |-> FALSE] :
               s \in Strings, st \in {<<0, 1, 2>>, <<0, 0, 1, 2>>, <<0, 1, 2, 3>>}}

ConfigInputs ==
    {[kind |-> "config", id |-> T_s1, parent |-> NoneNode, this |-> c,
      stack |-> <<>>, write |-> w] : c \in Roots, w \in BOOLEAN}

\* The roots, texts and commands of the runs that make several calls.
SeqRoots ==
    {Map1(T_log, ListNode(<<>>)), LateFloat, TwoKeys, DictNode(<<>>),
     ListNode(<<>>)}

WriteInputs ==
    {StrNode(<<"a">>), Map1(T_flag, StrNode(<<"a">>)), ListNode(<<>>), TwoKeys}

Dirs == {"", "/opt/sbin"}
Commands == {"syslog-ng", "syslog-ng-ctl"}

\* ---------------------------------------------------------- specifications
NoCall ==
    [op |-> "none", args |-> <<>>, err |-> "none", succ |-> FALSE,
     text |-> <<>>, by |-> <<>>, calls |-> <<>>, fileBefore |-> <<>>,
     pathBefore |-> <<"/usr/bin">>]

Init ==
    /\ file = <<>>
    /\ path = <<"/usr/bin">>
    /\ writes = 0
    /\ input = NoInput
    /\ last = NoCall

ConfigCall ==
    \E c \in SeqRoots, w \in BOOLEAN, io \in {"ok", "open_fails"} :
        Config(T_s1, c, w, io)

WriteConfigCall ==
    \E c \in WriteInputs, n \in 0..MaxNewlines, io \in {"ok", "open_fails"} :
        WriteConfig(T_s1, c, n, io)

RunCommandCall ==
    \E d \in Dirs, c \in Commands, o \in {"returns", "raises"} :
        RunCommand(d, c, o)

Next == ConfigCall \/ WriteConfigCall \/ RunCommandCall

Spec == Init /\ [][Next]_vars

\* One call of the compiler on arguments drawn at the start.
InitBuild ==
    /\ file = <<>>
    /\ path = <<"/usr/bin">>
    /\ writes = 0
    /\ input \in BuildInputs \cup ConfigInputs
    /\ last = NoCall

BuildConfigCall ==
    /\ input.kind = "build"
    /\ last.op = "none"
    /\ LET r == _build_config(input.id, input.parent, input.this, input.stack)
       IN  last' = [op |-> "build",
                    args |-> [name |-> input.id],
                    err |-> r.err, succ |-> (r.err = "none"),
                    text |-> r.text, by |-> r.by, calls |-> r.calls,
                    fileBefore |-> file, pathBefore |-> path]
    /\ UNCHANGED <<file, path, writes, input>>

CompileCall ==
    /\ input.kind = "config"
    /\ last.op = "none"
    /\ Config(input.id, input.this, input.write, "ok")

NextBuild == BuildConfigCall \/ CompileCall

SpecBuild == InitBuild /\ [][NextBuild]_vars

\* ------------------------------------------------------------ claim helpers
\* The _build_config calls of the last call made, the outermost first.
Calls == {last.calls[i] : i \in 1..Len(last.calls)}

StartsWith(text, prefix) ==
    Len(text) >= Len(prefix) /\ SubSeq(text, 1, Len(prefix)) = prefix

EndsWith(text, suffix) ==
    /\ Len(text) >= Len(suffix)
    /\ SubSeq(text, Len(text) - Len(suffix) + 1, Len(text)) = suffix

HasSpecialChar(s) == \E i \in 1..Len(s) : s[i] \in {"$", "@", ":", "/", "."}

IsScalar(x) == x.t \in {"str", "int", "float", "bool"}

RECURSIVE SplitFrom(_, _, _, _)
SplitFrom(text, i, line, lines) ==
    IF i > Len(text) THEN Append(lines, line)
    ELSE IF text[i] = "\n" THEN SplitFrom(text, i + 1, <<>>, Append(lines, line))
    ELSE SplitFrom(text, i + 1, Append(line, text[i]), lines)

\* The lines of a text, split at its line separators.
Lines(text) == SplitFrom(text, 1, <<>>, <<>>)

\* ----------------------------------------------------------------- claims
\* C1 (as claimed): a boolean node reached by _build_config with stack top 3
\* is emitted as 'no' when true and as 'yes' when false.
C1_BooleanLeafInverted ==
    \A c \in Calls :
        (Top(c.stack) = 3 /\ c.this.t = "bool") =>
            /\ c.err = "none"
            /\ c.text = IF c.this.v THEN <<"n", "o">> ELSE <<"y", "e", "s">>

\* A string emitted as a simple parameter: quoted, or as it is.
Quoted(c) == c.text = Indent(c.stack) \o <<"\"">> \o c.this.v \o <<"\"">>
Plain(c) == c.text = Indent(c.stack) \o c.this.v

\* C2 (as claimed): a string node emitted as a simple parameter (stack top 2)
\* is wrapped in double quotes if and only if it contains one of $ @ : / .
\* and that for all strings, those made of digits and a dot included.
C2_QuotedIffSpecial ==
    \A c \in Calls :
        (Top(c.stack) = 2 /\ c.this.t = "str" /\ c.branch = "simple") =>
            /\ c.err = "none"
            /\ Quoted(c) <=> HasSpecialChar(c.this.v)
            /\ ~Quoted(c) => Plain(c)

\* C2 (amended): a string node emitted as a simple parameter is wrapped in
\* double quotes if and only if it contains one of $ @ : / . and float() does
\* not accept it; every other string is emitted as it is, after the indent.
C2_QuotedIffSpecialAndNotNumeric ==
    \A c \in Calls :
        (Top(c.stack) = 2 /\ c.this.t = "str" /\ c.branch = "simple") =>
            /\ c.err = "none"
            /\ Quoted(c) <=> (HasSpecialChar(c.this.v) /\ ~FloatParses(c.this.v))
            /\ ~Quoted(c) => Plain(c)

\* C2 witness: a string of a digit and a dot reached with stack top 2 and
\* emitted bare, although it holds a dot.
C2_Witness ==
    \E c \in Calls :
        /\ Top(c.stack) = 2 /\ c.this = StrNode(<<"1", ".">>)
        /\ c.branch = "simple" /\ c.err = "none" /\ Plain(c)

\* The opening line of a statement without, and with, the declared id.
UnnamedHeader(c) ==
    Indent(c.stack) \o c.parent.v \o <<" ", "{", "\n">>
NamedHeader(c) ==
    Indent(c.stack) \o c.parent.v \o <<" ">> \o last.args.name
        \o <<" ", "{", "\n">>
Closer(c) == Indent(c.stack) \o <<"}", ";">>

\* C3 (as claimed): every node classified as a statement, at the top level or
\* nested, opens with '<indent><keyword> {' for log, channel, junction and
\* options, with '<indent><keyword> <id> {' for the six other keywords, and
\* closes with '<indent>};'.
C3_StatementBlock ==
    \A c \in Calls :
        (c.branch = "statement" /\ c.err = "none") =>
            /\ StartsWith(c.text,
                  IF c.parent.v \in {T_log, T_channel, T_junction, T_options}
                  THEN UnnamedHeader(c) ELSE NamedHeader(c))
            /\ EndsWith(c.text, Closer(c))

\* C3 (amended): a statement opens with '<indent><keyword> <id> {' only when
\* it is the top-level statement (the stack holds one entry) and its keyword
\* is one of the six named ones; a nested statement and the four unnamed
\* keywords open with '<indent><keyword> {'; every statement closes with
\* '<indent>};'.
C3_StatementBlockByDepth ==
    \A c \in Calls :
        (c.branch = "statement" /\ c.err = "none") =>
            /\ StartsWith(c.text,
                  IF \/ c.parent.v \in {T_log, T_channel, T_junction, T_options}
                     \/ Len(c.stack) > 1
                  THEN UnnamedHeader(c) ELSE NamedHeader(c))
            /\ EndsWith(c.text, Closer(c))

\* C3 witness: a named statement at the top level with a named statement
\* nested in its body, both emitted.
C3_Witness ==
    /\ last.op = "config" /\ last.err = "none"
    /\ \E c \in Calls :
          c.branch = "statement" /\ Len(c.stack) = 1 /\ c.parent.v = T_filter
    /\ \E c \in Calls :
          c.branch = "statement" /\ Len(c.stack) > 1 /\ c.parent.v = T_source

ExampleLine1 == T_source \o SP \o T_s1 \o SP \o <<"{">>
ExampleParameter == QUOTE \o T_messages \o QUOTE

\* C4 (as claimed): the example compiles to exactly the five lines
\* 'source s1 {', '   file(', '"/var/log/messages"', ');', '};'.
C4_ExampleFiveLines ==
    (last.op = "config" /\ last.args.config = Example /\ last.args.name = T_s1)
        => /\ last.err = "none"
           /\ Lines(last.text) =
                <<ExampleLine1,
                  Spaces(3) \o T_file \o <<"(">>,
                  ExampleParameter,
                  <<")", ";">>,
                  <<"}", ";">>>>

\* C4 (amended): the example compiles to exactly the five lines
\* 'source s1 {', '   id(s_local);   file(', '         "/var/log/messages"',
\* '   );', '};': the leading id mapping is emitted as the reference
\* id(s_local); on the line of the option's opener, the parameter is quoted
\* and indented by nine spaces, and the option's closer by three.
C4_ExampleAsCompiled ==
    (last.op = "config" /\ last.args.config = Example /\ last.args.name = T_s1)
        => /\ last.err = "none"
           /\ Lines(last.text) =
                <<ExampleLine1,
                  Spaces(3) \o T_id \o <<"(">> \o T_s_local \o <<")", ";">>
                      \o Spaces(3) \o T_file \o <<"(">>,
                  Spaces(9) \o ExampleParameter,
                  Spaces(3) \o <<")", ";">>,
                  <<"}", ";">>>>

\* C4 witness: config() has compiled the example under the id s1.
C4_Witness ==
    /\ last.op = "config" /\ last.args.config = Example
    /\ last.args.name = T_s1 /\ last.err = "none" /\ Len(last.text) > 0

\* C5: when _build_config reaches a node that matches none of its tests,
\* config() fails with SyslogNgError, returns no text, and the configuration
\* file is as the call found it, with write=True too and after earlier
\* siblings were emitted.
C5_UnhandledNodeWritesNothing ==
    (last.op = "config" /\ \E c \in Calls : c.branch = "unhandled") =>
        /\ last.err = "SyslogNgError"
        /\ ~last.succ
        /\ last.text = <<>>
        /\ file = last.fileBefore

\* C5 witness: config(write=True) on a file that already holds text met a
\* float at stack top 3 after an earlier option of the statement was emitted.
C5_Witness ==
    /\ last.op = "config" /\ last.args.write /\ last.args.io = "ok"
    /\ last.fileBefore # <<>>
    /\ \E c \in Calls :
          c.branch = "unhandled" /\ c.this.t = "float" /\ Top(c.stack) = 3
    /\ \E c \in Calls : c.branch = "options" /\ c.err = "none" /\ c.text # <<>>

\* C6 (as claimed): config() rejects every root that is not a mapping with
\* exactly one key with an error raised before _build_config is first called.
C6_RejectsNonSingleKeyRoot ==
    (/\ last.op = "config"
     /\ ~(last.args.config.t = "dict" /\ Len(last.args.config.v) = 1)) =>
        /\ last.err # "none"
        /\ last.calls = <<>>

\* The text a write call is given: the str itself, or the one value of a
\* single-key mapping.
GivenText(config) ==
    IF config.t = "dict" THEN config.v[1][2].v ELSE config.v

\* What the last call, if it is a successful write, must have added.
Added ==
    IF last.op = "config"
    THEN last.text \o <<"\n", "\n">>
    ELSE GivenText(last.args.config)
             \o [i \in 1..last.args.newlines |-> "\n"]

\* C7: every successful write_config or config(write=True) call is a pure
\* append: the file is what the call found, then the text, then `newlines`
\* line separators (2 for config).
C7_SuccessfulWriteAppends ==
    (/\ last.succ
     /\ \/ last.op = "write_config"
        \/ last.op = "config" /\ last.args.write) =>
        file = last.fileBefore \o Added

\* C7 witness: a second successful write, onto a file that already holds the
\* text of the first.
C7_Witness ==
    /\ last.succ /\ last.op \in {"write_config", "config"}
    /\ writes = 2
    /\ last.fileBefore # <<>>
    /\ Len(file) > Len(last.fileBefore)

\* C8 (as claimed): _run_command_in_extended_path leaves PATH as it found it
\* on every way out.
C8_PathRestored == last.op = "run" => path = last.pathBefore

\* C9 (as claimed): every scalar reached with stack top 2 is classified as a
\* simple parameter and the call returns the indent followed by the node's
\* textual form (quoted or not), without raising.
C9_ScalarIsSimpleParameter ==
    \A c \in Calls :
        (Top(c.stack) = 2 /\ IsScalar(c.this)) =>
            /\ c.branch = "simple"
            /\ c.err = "none"
            /\ \/ c.text = Indent(c.stack) \o Format(c.this)
               \/ c.text = Indent(c.stack) \o <<"\"">> \o Format(c.this)
                                           \o <<"\"">>

\* The category of a branch of the cascade: the three leaf branches are one.
Category(branch) ==
    IF branch \in {"string", "int", "boolean"} THEN "leaf" ELSE branch

IsKeyword(parent) ==
    /\ parent.t = "str"
    /\ parent.v \in {T_source, T_destination, T_log, T_parser, T_rewrite,
                     T_template, T_channel, T_junction, T_filter, T_options}

AllMappings(seq) == \A i \in 1..Len(seq) : seq[i].t = "dict"

\* The categories below Statement, in the order of the priority chain;
\* listLeaf says which sequences are a list leaf at stack top 3.
BelowStatement(parent, node, stack, listLeaf) ==
    LET top == stack[Len(stack)]
    IN  CASE parent.t = "str" /\ IsScalar(node) /\ top = 0 -> "reference"
          [] parent.t = "str" /\ node.t = "list" /\ top = 0 -> "options"
          [] node.t = "list" /\ top = 1 -> "parameters"
          [] IsScalar(node) /\ top = 2 -> "simple"
          [] node.t = "dict" /\ top = 2 -> "complex"
          [] node.t = "list" /\ top = 3 /\ listLeaf -> "list"
          [] node.t \in {"str", "int", "bool"} /\ top = 3 -> "leaf"
          [] OTHER -> "unhandled"

\* The category the claim assigns: a statement is a keyword's sequence that is
\* all mappings, or a string or mapping followed only by mappings, a sequence
\* of one string included; a list leaf is a sequence of scalars.
ClaimedCategory(parent, node, stack) ==
    IF /\ IsKeyword(parent) /\ node.t = "list"
       /\ \/ AllMappings(node.v)
          \/ /\ Len(node.v) >= 1
             /\ node.v[1].t \in {"str", "dict"}
             /\ AllMappings(Tail(node.v))
    THEN "statement"
    ELSE BelowStatement(parent, node, stack,
                        node.t = "list" /\ \A i \in 1..Len(node.v) : IsScalar(node.v[i]))

\* The category as amended: the string-first form of a statement needs at
\* least two elements, and any sequence at stack top 3 is a list leaf.
AmendedCategory(parent, node, stack) ==
    IF /\ IsKeyword(parent) /\ node.t = "list"
       /\ \/ AllMappings(node.v)
          \/ /\ Len(node.v) >= 2
             /\ node.v[1].t \in {"str", "dict"}
             /\ AllMappings(Tail(node.v))
    THEN "statement"
    ELSE BelowStatement(parent, node, stack, TRUE)

\* C10 (as claimed): the branch taken is the category of the priority chain,
\* a one-element sequence holding a string under a keyword being a statement.
C10_BranchIsClaimedCategory ==
    \A c \in Calls :
        Category(c.branch) = ClaimedCategory(c.parent, c.this, c.stack)

\* C10 (amended): the branch taken is the category of the priority chain,
\* where a keyword's sequence is a statement when it is all mappings (the
\* empty sequence included) or has at least two elements, a string or mapping
\* first and only mappings after it; a one-element sequence holding a string
\* is not a statement and falls to the later rules; any mapping at stack top 2
\* is a complex parameter and any sequence at stack top 3 a list leaf,
\* whatever its elements; failure when none matches.
C10_BranchIsAmendedCategory ==
    \A c \in Calls :
        Category(c.branch) = AmendedCategory(c.parent, c.this, c.stack)

\* C10 witness: the one-element sequence holding a string, under the keyword
\* source at the root, taken as an options block.
C10_Witness ==
    \E c \in Calls :
        /\ c.parent = StrNode(T_source) /\ c.stack = <<0>>
        /\ c.this = ListNode(<<StrNode(<<"a">>)>>)
        /\ c.branch = "options"

\* C11: every _build_config call that returns normally leaves the nesting
\* stack as it was entered with, so the stack config() created is [0] again
\* once config() has finished, and at entry to and exit from every call the
\* stack holds only the values 0..3.
C11_StackRestored ==
    /\ \A c \in Calls :
          /\ c.err = "none" => c.stackOut = c.stack
          /\ \A i \in 1..Len(c.stack) : c.stack[i] \in 0..3
          /\ \A i \in 1..Len(c.stackOut) : c.stackOut[i] \in 0..3
    /\ (last.op = "config" /\ last.err = "none") =>
          /\ last.calls[1].stack = <<0>>
          /\ last.calls[1].stackOut = <<0>>

\* C11 witness: config() has returned after calls that pushed 0, 1, 2 and 3,
\* the innermost entered with the stack [0, 0, 1, 2, 3].
C11_Witness ==
    /\ last.op = "config" /\ last.err = "none"
    /\ last.calls[1].stackOut = <<0>>
    /\ \E c \in Calls : c.stack = <<0, 0, 1, 2, 3>> /\ c.stackOut = c.stack

\* The positions of a text where a line begins.
LineStarts(text) ==
    {i \in 1..Len(text) : i = 1 \/ text[i - 1] = "\n"}

\* The number of spaces a text holds from position i on, up to the first
\* character that is not a space.
RECURSIVE LeadingSpaces(_, _)
LeadingSpaces(text, i) ==
    IF i > Len(text) \/ text[i] # " " THEN 0
    ELSE 1 + LeadingSpaces(text, i + 1)

\* The line that begins at position i begins with exactly three spaces for
\* each level above the first of the stack its first character's call was
\* entered with.
IndentedLine(text, by, i) ==
    LeadingSpaces(text, i) = IndentWidth * (by[i] - 1)

\* C12 (as claimed): every line of the text config() compiles begins with
\* exactly 3 x (d - 1) spaces, d in 1..4 being the length of the nesting stack
\* at entry to the _build_config call that wrote the line's first character.
C12_EveryLineIndented ==
    (last.op = "config" /\ last.err = "none") =>
        \A i \in LineStarts(last.text) :
            last.by[i] \in 1..4 => IndentedLine(last.text, last.by, i)

\* C12 (amended): every line of the compiled text that is not empty begins
\* with exactly 3 x (d - 1) spaces, d being the length of the nesting stack at
\* entry to the _build_config call that wrote the line's first character,
\* whatever d is; the empty line an options block without parameters leaves
\* carries no indent.
C12_NonEmptyLinesIndented ==
    (last.op = "config" /\ last.err = "none") =>
        \A i \in LineStarts(last.text) :
            last.text[i] # "\n" => IndentedLine(last.text, last.by, i)

\* C12 witness: the documented example has been compiled, and its text has
\* lines begun by calls entered at stack lengths 1, 2 and 4, indented by 0, 3
\* and 9 spaces.
C12_Witness ==
    /\ last.op = "config" /\ last.err = "none"
    /\ last.args.config = Example
    /\ {<<last.by[i], LeadingSpaces(last.text, i)>> :
           i \in LineStarts(last.text)} = {<<1, 0>>, <<2, 3>>, <<4, 9>>}

=============================================================================
